---- MODULE Spec2Model ----
(***************************************************************************)
(* Model of AutobyteusModelProvider (autobyteus_llm_client/provider.py):   *)
(* one run of discover_and_register, with the validators and the config    *)
(* parser it calls written as operators that follow the code line by line. *)
(*                                                                         *)
(* JSON values are tagged records.  A scalar is [t, n, s]: t is the Python *)
(* type ("absent" = key not in the mapping, "none" = null, "str", "num"),  *)
(* n the number, s the string.  Temperatures are in tenths (7 = 0.7,       *)
(* 20 = 2.0) so that the real-valued comparisons stay in the integers.     *)
(***************************************************************************)
EXTENDS Integers, Sequences, FiniteSets, TLC

VARIABLES pc, server_url, client, fetchCalls, closeCalls, pending, response,
          models, idx, registered_count, registry, outcomes, logs,
          LLMFactoryBound

vars == <<pc, server_url, client, fetchCalls, closeCalls, pending, response,
          models, idx, registered_count, registry, outcomes, logs,
          LLMFactoryBound>>

\* Longest `models` list of a fetched response.
MaxModels == 2

\* token_limit forced by _parse_llm_config when missing or below 1.
DEFAULT_TOKEN_LIMIT == 8192
\* temperature forced by _parse_llm_config when out of range: 0.7, in tenths.
DEFAULT_TEMPERATURE == 7
\* upper end of the accepted temperature range: 2, in tenths.
MAX_TEMPERATURE == 20

----------------------------------------------------------------------------
(* JSON values *)

Absent == [t |-> "absent", n |-> 0, s |-> ""]
None == [t |-> "none", n |-> 0, s |-> ""]
Str(x) == [t |-> "str", n |-> 0, s |-> x]
Num(x) == [t |-> "num", n |-> x, s |-> ""]

\* Python truthiness of a scalar that is present.
Truthy(x) ==
  CASE x.t = "none" -> FALSE
    [] x.t = "str" -> x.s # ""
    [] x.t = "num" -> x.n # 0
    [] OTHER -> FALSE

\* isinstance(x, (int, float))
IsNumeric(x) == x.t = "num"

\* A pricing_config value: key absent, null, a string, or a mapping with the
\* two pricing keys (each possibly absent).
Pricing(t, i, o) == [t |-> t, input_token_pricing |-> i, output_token_pricing |-> o]
NoPricing == Pricing("absent", Absent, Absent)
EmptyPricing == Pricing("dict", Absent, Absent)

\* A config value: key absent, null, a string, or a mapping.  `extra` says
\* that the mapping has some key other than the three the pipeline reads.
Config(t, p, tl, temp, extra) ==
  [t |-> t, pricing_config |-> p, token_limit |-> tl, temperature |-> temp,
   extra |-> extra]
NoConfigKey == Config("absent", NoPricing, Absent, Absent, FALSE)
NullConfig == Config("none", NoPricing, Absent, Absent, FALSE)
StrConfig == Config("str", NoPricing, Absent, Absent, FALSE)

\* bool(config): a mapping is truthy when it has at least one key, a string
\* config stands for a non-empty string.
ConfigTruthy(c) ==
  CASE c.t = "dict" -> \/ c.pricing_config.t # "absent"
                       \/ c.token_limit.t # "absent"
                       \/ c.temperature.t # "absent"
                       \/ c.extra
    [] c.t = "str" -> TRUE
    [] OTHER -> FALSE

\* A model entry: a mapping with the keys name, value, config (each possibly
\* absent), or a value that is not a mapping (null).
Entry(name, value, config) ==
  [isMap |-> TRUE, name |-> name, value |-> value, config |-> config]
NullEntry == [isMap |-> FALSE, name |-> Absent, value |-> Absent, config |-> NoConfigKey]

\* A record of the logger: level, message text, the value formatted into it,
\* and the count formatted into it (the summary line).
Log(level, text, arg) == [level |-> level, text |-> text, arg |-> arg, n |-> 0]
LogCount(level, text, count) == [level |-> level, text |-> text, arg |-> "", n |-> count]

----------------------------------------------------------------------------
(* is_valid_url *)

\* A URL is a sequence of lexical tokens; urlparse splits it into a scheme
\* (a leading word followed by ":") and a network location (the token after
\* "//").  A network location with an unmatched "[" makes urlparse raise
\* ValueError.
Separators == {":", "//"}
IsPath(tok) == tok \in {"/api", "8000"}

UrlScheme(url) ==
  IF Len(url) >= 2 /\ url[1] \notin Separators /\ ~IsPath(url[1]) /\ url[2] = ":"
  THEN url[1] ELSE ""

UrlRest(url) == IF UrlScheme(url) # "" THEN SubSeq(url, 3, Len(url)) ELSE url

UrlNetloc(url) ==
  LET rest == UrlRest(url)
  IN IF Len(rest) >= 2 /\ rest[1] = "//" /\ ~IsPath(rest[2]) THEN rest[2] ELSE ""

UrlParseRaises(url) == UrlNetloc(url) = "[bad"

\* Variant: any() in place of all().
is_valid_url_Any(url) ==
  IF UrlParseRaises(url) THEN FALSE
  ELSE UrlScheme(url) # "" \/ UrlNetloc(url) # ""

is_valid_url(url) ==
  IF UrlParseRaises(url) THEN FALSE
  ELSE UrlScheme(url) # "" /\ UrlNetloc(url) # ""

DEFAULT_SERVER_URL == <<"https", ":", "//", "localhost:8000">>

\* Values of AUTOBYTEUS_SERVER_URL (unset gives the default).
ServerUrls ==
  { DEFAULT_SERVER_URL,
    <<"http", ":", "//", "example.com", "/api">>,
    <<"localhost", ":", "8000">>,
    <<"//", "localhost:8000">>,
    <<"https", ":", "//">>,
    <<"https", ":", "/api">>,
    <<"http", ":", "//", "[bad">>,
    <<"/api">>,
    <<>> }

----------------------------------------------------------------------------
(* _validate_server_response *)

\* A fetched payload: null, a list, or a mapping that may have a `models`
\* key whose value may be a list.  `models` holds the list's entries.
Payload(kind, hasModels, modelsIsList, ms) ==
  [kind |-> kind, hasModels |-> hasModels, modelsIsList |-> modelsIsList,
   models |-> ms]
NoResponse == Payload("none", FALSE, FALSE, <<>>)

\* Variant: the isinstance check of response["models"] is missing.
_validate_server_response_NoListCheck(r) ==
  IF r.kind # "dict"
  THEN [ok |-> FALSE, message |-> "Invalid server response format"]
  ELSE IF ~r.hasModels
  THEN [ok |-> FALSE, message |-> "Missing 'models' field in response"]
  ELSE [ok |-> TRUE, message |-> ""]

\* The verdict and the error logged on a failed check.
_validate_server_response(r) ==
  IF r.kind # "dict"
  THEN [ok |-> FALSE, message |-> "Invalid server response format"]
  ELSE IF ~r.hasModels
  THEN [ok |-> FALSE, message |-> "Missing 'models' field in response"]
  ELSE IF ~r.modelsIsList
  THEN [ok |-> FALSE, message |-> "Models field must be a list"]
  ELSE [ok |-> TRUE, message |-> ""]

----------------------------------------------------------------------------
(* _validate_model_info *)

\* Variant: the fields are checked in another order.
required_fields_Swapped == <<"value", "name", "config">>

required_fields == <<"name", "value", "config">>

\* `field in model_info`
HasField(model_info, field) == model_info[field].t # "absent"

\* bool(model_info[field])
FieldTruthy(model_info, field) ==
  IF field = "config" THEN ConfigTruthy(model_info.config)
  ELSE Truthy(model_info[field])

Verdict(raised, valid, reason, field, checks) ==
  [raised |-> raised, valid |-> valid, message |-> <<reason, field>>,
   checks |-> checks]

\* The loop over required_fields from position i on, then the isinstance
\* check; `checks` lists the conditions evaluated so far, in order.
RECURSIVE CheckFields(_, _, _)
CheckFields(model_info, i, checks) ==
  IF i > Len(required_fields)
  THEN LET c == Append(checks, <<"isdict", "config">>)
       IN IF model_info.config.t # "dict"
          THEN Verdict(FALSE, FALSE, "Config must be a dictionary", "", c)
          ELSE Verdict(FALSE, TRUE, "", "", c)
  ELSE LET field == required_fields[i]
           c1 == Append(checks, <<"in", field>>)
           c2 == Append(c1, <<"truthy", field>>)
       IN IF ~HasField(model_info, field)
          THEN Verdict(FALSE, FALSE, "Missing required field", field, c1)
          ELSE IF ~FieldTruthy(model_info, field)
          THEN Verdict(FALSE, FALSE, "Empty value for required field", field, c2)
          ELSE CheckFields(model_info, i + 1, c2)

\* `field not in None` raises TypeError for an entry that is not a mapping.
_validate_model_info(model_info) ==
  IF ~model_info.isMap
  THEN Verdict(TRUE, FALSE, "TypeError", "", <<<<"in", "name">>>>)
  ELSE CheckFields(model_info, 1, <<>>)

----------------------------------------------------------------------------
(* _validate_pricing_config *)

required_keys == <<"input_token_pricing", "output_token_pricing">>

\* Variant: the loop without the negative-value check.
RECURSIVE CheckPricingKeys_NoSign(_, _)
CheckPricingKeys_NoSign(pricing_data, i) ==
  IF i > Len(required_keys) THEN [result |-> "true", message |-> <<"", "">>]
  ELSE LET key == required_keys[i]
       IN IF pricing_data[key].t = "absent"
          THEN [result |-> "false", message |-> <<"Missing pricing key", key>>]
          ELSE IF ~IsNumeric(pricing_data[key])
          THEN [result |-> "false", message |-> <<"Invalid pricing type for", key>>]
          ELSE CheckPricingKeys_NoSign(pricing_data, i + 1)

\* The loop over required_keys from position i on: "true", "false" or
\* "raise", with the error logged.
RECURSIVE CheckPricingKeys(_, _)
CheckPricingKeys(pricing_data, i) ==
  IF i > Len(required_keys) THEN [result |-> "true", message |-> <<"", "">>]
  ELSE LET key == required_keys[i]
       IN IF pricing_data[key].t = "absent"
          THEN [result |-> "false", message |-> <<"Missing pricing key", key>>]
          ELSE IF ~IsNumeric(pricing_data[key])
          THEN [result |-> "false", message |-> <<"Invalid pricing type for", key>>]
          ELSE IF pricing_data[key].n < 0
          THEN [result |-> "false", message |-> <<"Negative pricing for", key>>]
          ELSE CheckPricingKeys(pricing_data, i + 1)

\* `key not in None` raises TypeError; `key not in "a string"` is true for
\* a string that does not contain the key.
_validate_pricing_config(pricing_data) ==
  CASE pricing_data.t = "none" -> [result |-> "raise", message |-> <<"TypeError", "">>]
    [] pricing_data.t = "str" ->
         [result |-> "false", message |-> <<"Missing pricing key", required_keys[1]>>]
    [] OTHER -> CheckPricingKeys(pricing_data, 1)

----------------------------------------------------------------------------
(* _parse_llm_config *)

\* Variant: the default is a zero-priced mapping instead of the empty one.
GetPricingData_DefaultZero(config_data) ==
  IF config_data.pricing_config.t = "absent" THEN Pricing("dict", Num(0), Num(0))
  ELSE config_data.pricing_config

\* config_data.get("pricing_config", {})
GetPricingData(config_data) ==
  IF config_data.pricing_config.t = "absent" THEN EmptyPricing
  ELSE config_data.pricing_config

\* LLMConfig.from_dict: the config object carries the mapping's values; a
\* missing token_limit is None and a missing temperature the constructor's
\* default.
LLMConfig_from_dict(config_data) ==
  [token_limit |-> IF config_data.token_limit.t = "absent" THEN None
                   ELSE config_data.token_limit,
   temperature |-> IF config_data.temperature.t = "absent"
                   THEN Num(DEFAULT_TEMPERATURE)
                   ELSE config_data.temperature,
   pricing_config |-> config_data.pricing_config]

\* `x < 1`, `0 <= x` on a value that is not a number raises TypeError.
CompareRaises(x) == x.t # "num"

\* What _parse_llm_config did: the pricing validator's result, then either
\* the config it returned (ok) or the failure signal None, and its log records.
ParseResult(ok, pricing_result, tl, temp, lg) ==
  [ok |-> ok, pricing_result |-> pricing_result, token_limit |-> tl,
   temperature |-> temp, logs |-> lg]
\* The except branch: log the exception, return None.
ParseFailed(pricing_result, lg, exc) ==
  ParseResult(FALSE, pricing_result, 0, 0,
              Append(lg, Log("error", "Config parsing failed", exc)))

\* `not llm_config.token_limit or llm_config.token_limit < 1`
TokenLimitUnsafe(tl) == ~Truthy(tl) \/ tl.n < 1

\* Variant: the range check with strict bounds.
TemperatureUnsafe_Exclusive(temp) == ~(0 < temp.n /\ temp.n < MAX_TEMPERATURE)

\* `not 0 <= llm_config.temperature <= 2`
TemperatureUnsafe(temp) == ~(0 <= temp.n /\ temp.n <= MAX_TEMPERATURE)

\* from_dict_raises: the LLMConfig constructor rejects the mapping.
_parse_llm_config(config_data, from_dict_raises) ==
  LET pricing == _validate_pricing_config(GetPricingData(config_data))
      llm_config == LLMConfig_from_dict(config_data)
      tl == llm_config.token_limit
      temp == llm_config.temperature
      l1 == IF TokenLimitUnsafe(tl)
            THEN <<Log("warning", "Setting default token limit (8192)", "")>>
            ELSE <<>>
      l2 == IF TemperatureUnsafe(temp)
            THEN Append(l1, Log("warning", "Temperature out of range, resetting to 0.7", ""))
            ELSE l1
  IN IF pricing.result = "raise" THEN ParseFailed("raise", <<>>, "TypeError")
     ELSE IF pricing.result = "false"
     THEN ParseFailed("false",
                      <<Log("error", pricing.message[1], pricing.message[2])>>,
                      "Invalid pricing configuration")
     ELSE IF from_dict_raises THEN ParseFailed("true", <<>>, "LLMConfig.from_dict")
     ELSE IF Truthy(tl) /\ CompareRaises(tl) THEN ParseFailed("true", <<>>, "TypeError")
     ELSE IF CompareRaises(temp) THEN ParseFailed("true", l1, "TypeError")
     ELSE ParseResult(TRUE, "true",
                      IF TokenLimitUnsafe(tl) THEN DEFAULT_TOKEN_LIMIT ELSE tl.n,
                      IF TemperatureUnsafe(temp) THEN DEFAULT_TEMPERATURE ELSE temp.n,
                      l2)
\* _parse_llm_config was not reached for the entry.
NotParsed == ParseResult(FALSE, "not called", 0, 0, <<>>)

----------------------------------------------------------------------------
(* Inputs *)

GoodPricing == Pricing("dict", Num(1), Num(2))
GoodConfig == Config("dict", GoodPricing, Num(4096), Num(7), FALSE)

\* Entries of the responses of a whole run: one of each kind the pipeline
\* tells apart.
SampleEntries ==
  { Entry(Str("m1"), Str("v1"), GoodConfig),
    Entry(Str("m2"), Str("v2"), Config("dict", GoodPricing, Num(0), Num(50), FALSE)),
    Entry(Absent, Str("v1"), GoodConfig),
    Entry(Str("m1"), Str(""), GoodConfig),
    Entry(Str("m1"), Str("v1"), StrConfig),
    Entry(Str("m1"), Str("v1"), Config("dict", NoPricing, Num(4096), Num(7), FALSE)),
    Entry(Str("m1"), Str("v1"),
          Config("dict", Pricing("dict", Num(-1), Num(2)), Num(4096), Num(7), FALSE)),
    NullEntry }

SeqsUpTo(S, n) == UNION { [1..k -> S] : k \in 0..n }

Responses ==
  { NoResponse,
    Payload("list", FALSE, FALSE, <<>>),
    Payload("dict", FALSE, FALSE, <<>>),
    Payload("dict", TRUE, FALSE, <<>>) }
  \cup { Payload("dict", TRUE, TRUE, ms) : ms \in SeqsUpTo(SampleEntries, MaxModels) }

----------------------------------------------------------------------------
(* discover_and_register *)

Init ==
  /\ pc = "start"
  /\ server_url = <<>>
  /\ client = "none"
  /\ fetchCalls = 0
  /\ closeCalls = 0
  /\ pending = "none"
  /\ response = NoResponse
  /\ models = <<>>
  /\ idx = 0
  /\ registered_count = 0
  /\ registry = <<>>
  /\ outcomes = <<>>
  /\ logs = <<>>
  \* The module imports LLMFactory under TYPE_CHECKING only, so the name is
  \* bound at run time only if the host (or a test) has put it into the
  \* module's namespace.
  /\ LLMFactoryBound \in BOOLEAN

\* Variant: no outer handler, the exception leaves discover_and_register.
DiscoveryFailed_Propagates(exc) ==
  /\ logs' = logs
  /\ pc' = "propagated"

\* The outer `except Exception`: log and return.
DiscoveryFailed(exc) ==
  /\ logs' = Append(logs, Log("error", "Discovery failed", exc))
  /\ pc' = "done"

\* Lines 25-29: resolve the endpoint and validate it.
ResolveUrl ==
  /\ pc = "start"
  /\ \E url \in ServerUrls :
       /\ server_url' = url
       /\ IF is_valid_url(url)
          THEN /\ pc' = "open_client"
               /\ logs' = logs
          ELSE /\ pc' = "done"
               /\ logs' = Append(logs, Log("error", "Invalid server URL", ""))
  /\ UNCHANGED <<client, fetchCalls, closeCalls, pending, response, models,
                 idx, registered_count, registry, outcomes, LLMFactoryBound>>

\* Line 31: AutobyteusClient() may raise (caught by the outer handler).
OpenClient ==
  /\ pc = "open_client"
  /\ \E raises \in BOOLEAN :
       IF raises
       THEN /\ DiscoveryFailed("AutobyteusClient")
            /\ client' = client
       ELSE /\ client' = "open"
            /\ pc' = "fetch"
            /\ logs' = logs
  /\ UNCHANGED <<server_url, fetchCalls, closeCalls, pending, response, models,
                 idx, registered_count, registry, outcomes, LLMFactoryBound>>

\* Lines 34-38: await client.get_available_models(); the outcome is a
\* payload, httpx.RequestError (logged, return pending) or another exception
\* (pending for the outer handler).  The finally clause runs next.
Fetch ==
  /\ pc = "fetch"
  /\ fetchCalls' = fetchCalls + 1
  /\ pc' = "finally"
  /\ \/ \E r \in Responses :
          /\ response' = r
          /\ pending' = "none"
          /\ logs' = logs
     \/ /\ pending' = "RequestError"
        /\ logs' = Append(logs, Log("warning", "Connection failed", "RequestError"))
        /\ response' = response
     \/ /\ pending' = "Exception"
        /\ logs' = logs
        /\ response' = response
  /\ UNCHANGED <<server_url, client, closeCalls, models, idx, registered_count,
                 registry, outcomes, LLMFactoryBound>>

\* Variant: close() at the end of the try body instead of in finally, so it
\* is skipped when the fetch raised.
CloseClient_NotInFinally ==
  /\ pc = "finally"
  /\ IF pending = "none"
     THEN /\ closeCalls' = closeCalls + 1
          /\ client' = "closed"
          /\ \E raises \in BOOLEAN :
               IF raises THEN DiscoveryFailed("close")
               ELSE pc' = "validate_response" /\ logs' = logs
     ELSE /\ UNCHANGED <<closeCalls, client>>
          /\ IF pending = "Exception" THEN DiscoveryFailed("Exception")
             ELSE pc' = "done" /\ logs' = logs
  /\ UNCHANGED <<server_url, fetchCalls, pending, response, models, idx,
                 registered_count, registry, outcomes, LLMFactoryBound>>

\* Lines 39-40: finally: await client.close(), then the pending return or
\* exception takes effect; close() itself may raise.
CloseClient ==
  /\ pc = "finally"
  /\ closeCalls' = closeCalls + 1
  /\ client' = "closed"
  /\ \E raises \in BOOLEAN :
       IF raises THEN DiscoveryFailed("close")
       ELSE IF pending = "Exception" THEN DiscoveryFailed("Exception")
       ELSE IF pending = "RequestError" THEN pc' = "done" /\ logs' = logs
       ELSE pc' = "validate_response" /\ logs' = logs
  /\ UNCHANGED <<server_url, fetchCalls, pending, response, models, idx,
                 registered_count, registry, outcomes, LLMFactoryBound>>

\* Lines 42-46.
ValidateResponse ==
  /\ pc = "validate_response"
  /\ LET v == _validate_server_response(response)
     IN IF v.ok
        THEN /\ models' = response.models
             /\ registered_count' = 0
             /\ idx' = 1
             /\ pc' = "loop"
             /\ logs' = logs
        ELSE /\ logs' = Append(logs, Log("error", v.message, ""))
             /\ pc' = "done"
             /\ UNCHANGED <<models, registered_count, idx>>
  /\ UNCHANGED <<server_url, client, fetchCalls, closeCalls, pending, response,
                 registry, outcomes, LLMFactoryBound>>

\* The descriptor LLMModel(...) builds at lines 59-65.
LLMModel(model_info, llm_config) ==
  [name |-> model_info.name.s, value |-> model_info.value.s,
   provider |-> "AUTOBYTEUS", llm_class |-> "AutobyteusLLM",
   default_config |-> [token_limit |-> llm_config.token_limit,
                       temperature |-> llm_config.temperature]]

\* What one iteration of the entry loop did: the validation verdict, the
\* parser's result (NotParsed when it was not called), whether
\* register_model was called and returned, and the exception the per-entry
\* handler caught ("" for none).
Outcome(verdict, cfg, called, registered, error) ==
  [validation_result |-> verdict, llm_config |-> cfg, register_called |-> called,
   registered |-> registered, error |-> error]

\* The per-entry `except Exception`: log and continue.
RegistrationFailed(lg, exc) ==
  Append(lg, Log("error", "Model registration failed", exc))

\* Lines 48-73: one iteration of `for model_info in models`.
ProcessEntry ==
  /\ pc = "loop"
  /\ idx <= Len(models)
  /\ idx' = idx + 1
  /\ \E from_dict_raises, ctor_raises, register_raises \in BOOLEAN :
       LET model_info == models[idx]
           validation_result == _validate_model_info(model_info)
           llm_config == _parse_llm_config(model_info.config, from_dict_raises)
           llm_model == LLMModel(model_info, llm_config)
       IN IF validation_result.raised
          THEN /\ outcomes' = Append(outcomes,
                      Outcome(validation_result, NotParsed, FALSE, FALSE, "TypeError"))
               /\ logs' = RegistrationFailed(logs, "TypeError")
               /\ UNCHANGED <<registry, registered_count>>
          ELSE IF ~validation_result.valid
          THEN /\ outcomes' = Append(outcomes,
                      Outcome(validation_result, NotParsed, FALSE, FALSE, ""))
               /\ logs' = Append(logs, Log("warning", validation_result.message[1],
                                           validation_result.message[2]))
               /\ UNCHANGED <<registry, registered_count>>
          ELSE IF ~llm_config.ok
          THEN /\ outcomes' = Append(outcomes,
                      Outcome(validation_result, llm_config, FALSE, FALSE, ""))
               /\ logs' = logs \o llm_config.logs
               /\ UNCHANGED <<registry, registered_count>>
          ELSE IF ctor_raises
          THEN /\ outcomes' = Append(outcomes,
                      Outcome(validation_result, llm_config, FALSE, FALSE, "LLMModel"))
               /\ logs' = RegistrationFailed(logs \o llm_config.logs, "LLMModel")
               /\ UNCHANGED <<registry, registered_count>>
          ELSE IF ~LLMFactoryBound
          THEN /\ outcomes' = Append(outcomes,
                      Outcome(validation_result, llm_config, FALSE, FALSE, "NameError"))
               /\ logs' = RegistrationFailed(logs \o llm_config.logs, "NameError")
               /\ UNCHANGED <<registry, registered_count>>
          ELSE IF register_raises
          THEN /\ outcomes' = Append(outcomes,
                      Outcome(validation_result, llm_config, TRUE, FALSE, "register_model"))
               /\ logs' = RegistrationFailed(logs \o llm_config.logs, "register_model")
               /\ UNCHANGED <<registry, registered_count>>
          ELSE /\ outcomes' = Append(outcomes,
                      Outcome(validation_result, llm_config, TRUE, TRUE, ""))
               /\ registry' = Append(registry, llm_model)
               /\ registered_count' = registered_count + 1
               /\ logs' = Append(logs \o llm_config.logs,
                                 Log("info", "Registered model", llm_model.name))
  /\ UNCHANGED <<pc, server_url, client, fetchCalls, closeCalls, pending,
                 response, models, LLMFactoryBound>>

\* Variant: the summary reports the entries processed, not those registered.
Summarize_CountsProcessed ==
  /\ pc = "loop"
  /\ idx > Len(models)
  /\ logs' = Append(logs, LogCount("info", "Registered valid models", Len(models)))
  /\ pc' = "done"
  /\ UNCHANGED <<server_url, client, fetchCalls, closeCalls, pending, response,
                 models, idx, registered_count, registry, outcomes,
                 LLMFactoryBound>>

\* Line 75, after the loop.
Summarize ==
  /\ pc = "loop"
  /\ idx > Len(models)
  /\ logs' = Append(logs, LogCount("info", "Registered valid models", registered_count))
  /\ pc' = "done"
  /\ UNCHANGED <<server_url, client, fetchCalls, closeCalls, pending, response,
                 models, idx, registered_count, registry, outcomes,
                 LLMFactoryBound>>

Next ==
  \/ ResolveUrl
  \/ OpenClient
  \/ Fetch
  \/ CloseClient
  \/ ValidateResponse
  \/ ProcessEntry
  \/ Summarize

Spec == Init /\ [][Next]_vars

----------------------------------------------------------------------------
(* The entry loop on a one-entry response, over every combination of field  *)
(* values: the state after a fetch from the default endpoint whose payload  *)
(* passed _validate_server_response.                                        *)

NameValues == {Absent, None, Str(""), Str("m1")}
PricingValues == {Absent, None, Str("x"), Num(-1), Num(0), Num(1)}
TokenLimitValues == {Absent, None, Str("x"), Num(-1), Num(0), Num(1), Num(4096)}
TemperatureValues ==
  {Absent, None, Str("x"), Num(-1), Num(0), Num(7), Num(20), Num(21), Num(50)}

PricingConfigs ==
  { NoPricing, Pricing("none", Absent, Absent), Pricing("str", Absent, Absent) }
  \cup { Pricing("dict", i, o) : i \in PricingValues, o \in PricingValues }

Configs ==
  { NoConfigKey, NullConfig, StrConfig }
  \cup { Config("dict", p, tl, temp, extra) :
           p \in PricingConfigs, tl \in TokenLimitValues,
           temp \in TemperatureValues, extra \in BOOLEAN }

AllEntries ==
  { NullEntry }
  \cup { Entry(name, value, config) :
           name \in NameValues, value \in NameValues, config \in Configs }

InitEntry ==
  /\ pc = "loop"
  /\ server_url = DEFAULT_SERVER_URL
  /\ client = "closed"
  /\ fetchCalls = 1
  /\ closeCalls = 1
  /\ pending = "none"
  /\ \E e \in AllEntries :
       /\ response = Payload("dict", TRUE, TRUE, <<e>>)
       /\ models = <<e>>
  /\ idx = 1
  /\ registered_count = 0
  /\ registry = <<>>
  /\ outcomes = <<>>
  /\ logs = <<>>
  /\ LLMFactoryBound \in BOOLEAN

NextEntry ==
  \/ ProcessEntry
  \/ Summarize

SpecEntry == InitEntry /\ [][NextEntry]_vars

----------------------------------------------------------------------------
(* Properties *)

Processed == 1..Len(outcomes)

\* models[i] passed every validation step.
PassedValidation(i) ==
  /\ ~outcomes[i].validation_result.raised
  /\ outcomes[i].validation_result.valid
  /\ outcomes[i].llm_config.ok

HasSummary == \E k \in 1..Len(logs) : logs[k].text = "Registered valid models"

\* C1: for every processed entry, register_model is called for the
\* descriptor built from it if and only if the entry passed every validation
\* step (valid verdict, config returned).
C1_RegisteredIffValidated ==
  \A i \in Processed :
    /\ outcomes[i].register_called => PassedValidation(i)
    /\ (PassedValidation(i) /\ outcomes[i].error # "LLMModel")
         => outcomes[i].register_called

\* C2: no failure of any step propagates: the run never leaves through an
\* exception, a failure before the loop ends the run with "Discovery failed"
\* (or "Connection failed") as its last log record, and a failure inside the
\* loop is logged and leaves the run in the loop.
C2_NeverPropagates ==
  /\ pc # "propagated"
  /\ (pc = "done" /\ pending = "Exception")
       => logs[Len(logs)].text = "Discovery failed"
  /\ (pc = "done" /\ pending = "RequestError" /\ logs[Len(logs)].text # "Discovery failed")
       => logs[Len(logs)].text = "Connection failed"
  /\ \A i \in Processed :
       outcomes[i].error # ""
         => \E k \in 1..Len(logs) :
              /\ logs[k].text = "Model registration failed"
              /\ logs[k].arg = outcomes[i].error

C2_Witness ==
  /\ pc = "done"
  /\ pending = "Exception"
  /\ closeCalls = 1

\* C3: once a client is open, close() is called on every exit path of the
\* fetch, and before the response is validated or any entry processed.
C3_CloseOnEveryExit ==
  /\ (pc = "done" /\ client # "none") => (client = "closed" /\ closeCalls >= 1)
  /\ pc \in {"validate_response", "loop"} => (client = "closed" /\ closeCalls >= 1)
  /\ (outcomes # <<>> \/ registry # <<>>) => (client = "closed" /\ closeCalls >= 1)

C3_Witness ==
  /\ pc = "done"
  /\ pending = "RequestError"
  /\ client = "closed"
  /\ closeCalls = 1

\* A URL with no scheme, no network location, or that does not parse.
Malformed(url) ==
  \/ UrlParseRaises(url)
  \/ UrlScheme(url) = ""
  \/ UrlNetloc(url) = ""

\* C4: for a malformed endpoint URL the run creates no client, never calls
\* get_available_models and registers nothing.
C4_InvalidUrlNoFetch ==
  (pc # "start" /\ Malformed(server_url))
    => /\ pc = "done"
       /\ client = "none"
       /\ fetchCalls = 0
       /\ closeCalls = 0
       /\ outcomes = <<>>
       /\ registry = <<>>

C4_Witness ==
  /\ pc = "done"
  /\ server_url = <<"localhost", ":", "8000">>
  /\ fetchCalls = 0

\* The payload is not a mapping, lacks `models`, or `models` is not a list.
BadShape(r) == r.kind # "dict" \/ ~r.hasModels \/ ~r.modelsIsList

\* C5: after a transport error, or a fetched payload of invalid shape, the
\* run never enters the entry loop: no entry is validated, nothing is
\* registered.
C5_NoEntryAfterFetchFailure ==
  (\/ pending = "RequestError"
   \/ (fetchCalls = 1 /\ pending = "none" /\ BadShape(response)))
    => /\ pc \in {"finally", "validate_response", "done"}
       /\ models = <<>>
       /\ outcomes = <<>>
       /\ registry = <<>>
       /\ registered_count = 0
       /\ ~HasSummary

C5_Witness ==
  /\ pc = "done"
  /\ fetchCalls = 1
  /\ pending = "none"
  /\ response = Payload("dict", TRUE, FALSE, <<>>)

\* A pricing value that is absent, not a number, or negative.
PricingValueBad(x) == x.t # "num" \/ x.n < 0

\* C6: for an entry whose pricing mapping has a pricing key that is absent,
\* non-numeric or negative, _validate_pricing_config returns false,
\* _parse_llm_config returns None and the entry is not registered; when both
\* keys are numeric and non-negative the validator returns true.
C6_BadPricingSkipped ==
  \A i \in Processed :
    LET p == models[i].config.pricing_config
        o == outcomes[i]
    IN (o.validation_result.valid /\ p.t = "dict")
         => IF PricingValueBad(p.input_token_pricing)
               \/ PricingValueBad(p.output_token_pricing)
            THEN /\ o.llm_config.pricing_result = "false"
                 /\ ~o.llm_config.ok
                 /\ ~o.register_called
                 /\ ~o.registered
            ELSE o.llm_config.pricing_result = "true"

C6_Witness ==
  /\ Len(outcomes) = 1
  /\ outcomes[1].validation_result.valid
  /\ models[1].config.pricing_config = Pricing("dict", Num(1), Num(-1))
  /\ outcomes[1].llm_config.pricing_result = "false"
  /\ registry = <<>>
  /\ pc = "done"

\* C7: every config _parse_llm_config returns has token_limit >= 1 and a
\* temperature in [0, 2]; a token limit that is missing, null or below 1
\* became 8192, a temperature outside [0, 2] became 0.7, and in-range values
\* are unchanged; the registered descriptors carry these values.
C7_SafeValues ==
  /\ \A i \in Processed :
       LET tl == models[i].config.token_limit
           temp == models[i].config.temperature
           c == outcomes[i].llm_config
       IN c.ok =>
            /\ c.token_limit >= 1
            /\ 0 <= c.temperature /\ c.temperature <= MAX_TEMPERATURE
            /\ (tl.t \in {"absent", "none"} \/ (tl.t = "num" /\ tl.n < 1))
                 => c.token_limit = DEFAULT_TOKEN_LIMIT
            /\ (tl.t = "num" /\ tl.n >= 1) => c.token_limit = tl.n
            /\ (temp.t = "num" /\ (temp.n < 0 \/ temp.n > MAX_TEMPERATURE))
                 => c.temperature = DEFAULT_TEMPERATURE
            /\ (temp.t = "num" /\ temp.n >= 0 /\ temp.n <= MAX_TEMPERATURE)
                 => c.temperature = temp.n
  /\ \A k \in 1..Len(registry) :
       /\ registry[k].default_config.token_limit >= 1
       /\ registry[k].default_config.temperature >= 0
       /\ registry[k].default_config.temperature <= MAX_TEMPERATURE

C7_Witness ==
  /\ Len(registry) = 1
  /\ models[1].config.token_limit = Num(0)
  /\ models[1].config.temperature = Num(50)
  /\ registry[1].default_config.token_limit = DEFAULT_TOKEN_LIMIT
  /\ registry[1].default_config.temperature = DEFAULT_TEMPERATURE

\* C8 as stated: every finished run has emitted the summary line, and its
\* count is the number of models registered in the run.
C8_SummaryAlways ==
  pc = "done"
    => \E k \in 1..Len(logs) :
         /\ logs[k].text = "Registered valid models"
         /\ logs[k].n = Len(registry)

\* C8 amended: a finished run has emitted the summary line exactly when it
\* entered the entry loop; the line is then the last log record and its count
\* is the number of models registered in the run.  A run that stopped before
\* the loop has no summary line.
C8_SummaryAfterLoop ==
  /\ HasSummary => pc = "done"
  /\ pc = "done" =>
       /\ HasSummary <=> idx >= 1
       /\ HasSummary =>
            /\ logs[Len(logs)] = LogCount("info", "Registered valid models", Len(registry))
            /\ Len(registry) = Cardinality({i \in Processed : outcomes[i].registered})
            /\ \A k \in 1..(Len(logs) - 1) : logs[k].text # "Registered valid models"

C8_Witness ==
  /\ pc = "done"
  /\ Len(outcomes) = 2
  /\ Len(registry) = 1
  /\ logs[Len(logs)] = LogCount("info", "Registered valid models", 1)

\* C9 as stated: for a valid entry whose config has no pricing_config key,
\* the absence is not a validation failure: the pricing check does not fail.
C9_AbsentPricingAccepted ==
  \A i \in Processed :
    (outcomes[i].validation_result.valid
     /\ models[i].config.pricing_config.t = "absent")
      => outcomes[i].llm_config.pricing_result # "false"

\* C9 amended: for a valid entry whose config has no pricing_config key, the
\* pricing config defaults to the empty mapping, which fails the pricing
\* check on its first key: _parse_llm_config returns None and the entry is
\* not registered.
C9_AbsentPricingSkipped ==
  \A i \in Processed :
    (outcomes[i].validation_result.valid
     /\ models[i].config.pricing_config.t = "absent")
      => /\ outcomes[i].llm_config.pricing_result = "false"
         /\ outcomes[i].llm_config.logs[1] =
              Log("error", "Missing pricing key", "input_token_pricing")
         /\ ~outcomes[i].llm_config.ok
         /\ ~outcomes[i].register_called
         /\ ~outcomes[i].registered

C9_Witness ==
  /\ pc = "done"
  /\ Len(outcomes) = 1
  /\ outcomes[1].validation_result.valid
  /\ models[1].config.pricing_config.t = "absent"
  /\ models[1].config.token_limit = Num(4096)
  /\ ~outcomes[1].llm_config.ok
  /\ registry = <<>>

\* The checks of _validate_model_info, in the order the claim gives.
AllChecks ==
  << <<"in", "name">>, <<"truthy", "name">>,
     <<"in", "value">>, <<"truthy", "value">>,
     <<"in", "config">>, <<"truthy", "config">>,
     <<"isdict", "config">> >>

CheckHolds(e, c) ==
  CASE c[1] = "in" -> e[c[2]].t # "absent"
    [] c[1] = "truthy" ->
         IF c[2] = "config"
         THEN (e.config.t = "str" \/ (e.config.t = "dict" /\ e.config # Config("dict", NoPricing, Absent, Absent, FALSE)))
         ELSE (e[c[2]].t = "str" /\ e[c[2]].s # "")
    [] OTHER -> e.config.t = "dict"

ReasonOf(c) ==
  CASE c[1] = "in" -> <<"Missing required field", c[2]>>
    [] c[1] = "truthy" -> <<"Empty value for required field", c[2]>>
    [] OTHER -> <<"Config must be a dictionary", "">>

\* C10: for an entry that is a mapping, the verdict is valid exactly when
\* every check holds; otherwise it carries the reason of the first failing
\* check in the order name, value, config (presence, then non-emptiness),
\* then config-is-a-mapping, and no check after that one was evaluated.
C10_FirstFailingCheck ==
  \A i \in Processed :
    LET e == models[i]
        v == outcomes[i].validation_result
        failing == {k \in 1..Len(AllChecks) : ~CheckHolds(e, AllChecks[k])}
    IN e.isMap =>
         /\ ~v.raised
         /\ v.valid <=> failing = {}
         /\ v.valid => (v.checks = AllChecks /\ v.message = <<"", "">>)
         /\ ~v.valid =>
              \E k \in failing :
                /\ \A j \in failing : k <= j
                /\ v.message = ReasonOf(AllChecks[k])
                /\ v.checks = SubSeq(AllChecks, 1, k)

C10_Witness ==
  /\ Len(outcomes) = 1
  /\ models[1].isMap
  /\ models[1].name = Str("m1")
  /\ models[1].value = Absent
  /\ models[1].config = NoConfigKey
  /\ outcomes[1].validation_result.message = <<"Missing required field", "value">>
  /\ Len(outcomes[1].validation_result.checks) = 3

====
